---- MODULE Spec2Model ----
(***************************************************************************)
(* Model of src/app.py: MultiCompanyAccounting, the double-entry ledger    *)
(* of two companies held in the Streamlit session state, together with the *)
(* handlers of the pages that change it (the record form, the reset        *)
(* buttons, the company name inputs).                                      *)
(*                                                                         *)
(* The source reads the registry as self.companies / accounting.companies  *)
(* and creates it as st.session_state.companies; the model takes both as   *)
(* the one dictionary, the variable companies.                             *)
(*                                                                         *)
(* Money.  A Decimal is the record [hi, lo] that stands for the exact      *)
(* value hi * 10^22 + lo pounds, with |hi| <= 4 and |lo| < 2^20.  Decimal  *)
(* addition and subtraction are exact there (at most 25 significant        *)
(* digits, the context keeps 28), so they are componentwise.  10^22 is a   *)
(* value a binary double holds exactly, and doubles next to it are 2^21    *)
(* pounds apart or more, which is what float() is modelled from.           *)
(***************************************************************************)
EXTENDS Integers, Sequences, FiniteSets, TLC

VARIABLES
    companies,  \* st.session_state.companies:
                \* id -> [name, transactions, accounts, color]
    ret,        \* what the last operation returned to its caller
    msg         \* what the last operation showed with st.error / st.success
                \* (a page is drawn anew on every run: older messages are gone)

vars == <<companies, ret, msg>>

----------------------------------------------------------------------------
(* Bounds of the model *)

MaxTx == 2          \* transactions in the two logs together
MaxBalance == 2400  \* |lo| of any account balance
MaxHi == 1          \* |hi| of any account balance

----------------------------------------------------------------------------
(* Decimal *)

Dec(h, l) == [hi |-> h, lo |-> l]

Zero == Dec(0, 0)

Add(a, b) == Dec(a.hi + b.hi, a.lo + b.lo)

Sub(a, b) == Dec(a.hi - b.hi, a.lo - b.lo)

\* float(d): the double nearest to d.  With hi = 0 the value has at most 7
\* digits and the double prints back to it; with hi # 0 the nearest double is
\* hi * 10^22 itself, lo being less than half the gap between doubles.
float(d) == IF d.hi = 0 THEN d ELSE Dec(d.hi, 0)

\* Decimal(str(f)) of a float f: str gives the shortest digits that read back
\* as f ("1200.0", "1e+22"), which Decimal parses exactly.
DecimalOfStr(f) == Dec(f.hi, f.lo)

----------------------------------------------------------------------------
(* Chart of accounts *)

AssetCodes == {"1000", "1100", "1200", "1500", "1600"}
LiabilityCodes == {"2000", "2100", "2500", "2600"}
EquityCodes == {"3000", "3900", "3950"}
IncomeCodes == {"4000", "4100", "4200"}
ExpenseCodes == {"5000", "5100", "5200", "5300", "5400", "5500", "5600", "5700"}

\* the codes in the order the chart lists them (a dict keeps that order)
ChartOrder ==
    <<"1000", "1100", "1200", "1500", "1600", "2000", "2100", "2500", "2600",
      "3000", "3900", "3950", "4000", "4100", "4200",
      "5000", "5100", "5200", "5300", "5400", "5500", "5600", "5700">>

Codes == AssetCodes \cup LiabilityCodes \cup EquityCodes \cup IncomeCodes \cup ExpenseCodes

AccountName(code) ==
    CASE code = "1000" -> "Cash"
      [] code = "1100" -> "Accounts Receivable"
      [] code = "1200" -> "Inventory"
      [] code = "1500" -> "Equipment"
      [] code = "1600" -> "Vehicles"
      [] code = "2000" -> "Accounts Payable"
      [] code = "2100" -> "VAT Payable"
      [] code = "2500" -> "Bank Loan"
      [] code = "2600" -> "Credit Card"
      [] code = "3000" -> "Owner's Capital"
      [] code = "3900" -> "Retained Earnings"
      [] code = "3950" -> "Current Year Earnings"
      [] code = "4000" -> "Product Sales"
      [] code = "4100" -> "Service Revenue"
      [] code = "4200" -> "Consulting Income"
      [] code = "5000" -> "Cost of Goods Sold"
      [] code = "5100" -> "Salary Expense"
      [] code = "5200" -> "Rent Expense"
      [] code = "5300" -> "Utilities Expense"
      [] code = "5400" -> "Marketing Expense"
      [] code = "5500" -> "Office Supplies"
      [] code = "5600" -> "Travel Expense"
      [] code = "5700" -> "Professional Fees"

AccountType(code) ==
    CASE code \in AssetCodes -> "asset"
      [] code \in LiabilityCodes -> "liability"
      [] code \in EquityCodes -> "equity"
      [] code \in IncomeCodes -> "income"
      [] code \in ExpenseCodes -> "expense"

create_chart_of_accounts ==
    [code \in Codes |->
        [name |-> AccountName(code), type |-> AccountType(code), balance |-> Zero]]

----------------------------------------------------------------------------
(* Session state *)

CompanyIds == {"company_1", "company_2"}

DefaultName(id) ==
    IF id = "company_1" THEN "Tech Solutions Ltd" ELSE "Consulting Partners Ltd"

DefaultColor(id) == IF id = "company_1" THEN "#1E88E5" ELSE "#FF6B00"

setup_session_state ==
    [id \in CompanyIds |->
        [name |-> DefaultName(id),
         transactions |-> <<>>,
         accounts |-> create_chart_of_accounts,
         color |-> DefaultColor(id)]]

NoReturn == [kind |-> "none"]

NoMessage == [kind |-> "none", debits |-> Dec(0, 0), credits |-> Dec(0, 0)]

Init ==
    /\ companies = setup_session_state
    /\ ret = NoReturn
    /\ msg = NoMessage

----------------------------------------------------------------------------
(* Entries.  An entry is the dictionary the caller passes: a function whose  *)
(* domain is a subset of {"account", "debit", "credit"}.  An amount x is     *)
(* held as the Decimal that Decimal(str(x)) gives for it.                    *)

AccountOnly(code) == [k \in {"account"} |-> code]

DebitEntry(code, d) == ("account" :> code) @@ ("debit" :> d)

CreditEntry(code, c) == ("account" :> code) @@ ("credit" :> c)

BothEntry(code, d, c) == ("account" :> code) @@ ("debit" :> d) @@ ("credit" :> c)

\* an entry that lacks the "account" key
CreditNoAccount(c) == [k \in {"credit"} |-> c]

\* Decimal(str(entry.get(key, 0)))
EntryAmount(entry, key) == IF key \in DOMAIN entry THEN entry[key] ELSE Zero

\* sum(Decimal(str(entry.get(key, 0))) for entry in entries)
RECURSIVE SumEntries(_, _)
SumEntries(entries, key) ==
    IF entries = <<>> THEN Zero
    ELSE Add(EntryAmount(Head(entries), key), SumEntries(Tail(entries), key))

\* lines 118-121 with "elif" for the credit
ApplyEntryElif(balance, entry) ==
    IF "debit" \in DOMAIN entry THEN Add(balance, entry["debit"])
    ELSE IF "credit" \in DOMAIN entry THEN Sub(balance, entry["credit"])
    ELSE balance

\* lines 118-121 with the credit added to the balance
ApplyEntryCreditAdds(balance, entry) ==
    LET afterDebit == IF "debit" \in DOMAIN entry
                      THEN Add(balance, entry["debit"]) ELSE balance
    IN IF "credit" \in DOMAIN entry
       THEN Add(afterDebit, entry["credit"]) ELSE afterDebit

\* lines 118-121: the balance after one entry is applied to it
ApplyEntry(balance, entry) ==
    LET afterDebit == IF "debit" \in DOMAIN entry
                      THEN Add(balance, entry["debit"]) ELSE balance
    IN IF "credit" \in DOMAIN entry
       THEN Sub(afterDebit, entry["credit"]) ELSE afterDebit

\* lines 114-121: the loop over the entries from position i on.  entry["account"]
\* raises KeyError on an entry without that key: the loop stops there, and the
\* balances already updated stay updated (the accounts are updated in place).
RECURSIVE UpdateBalances(_, _, _)
UpdateBalances(accounts, entries, i) ==
    IF i > Len(entries) THEN [accounts |-> accounts, raised |-> FALSE]
    ELSE LET entry == entries[i] IN
         IF "account" \notin DOMAIN entry
         THEN [accounts |-> accounts, raised |-> TRUE]
         ELSE LET account_num == entry["account"] IN
              IF account_num \in DOMAIN accounts
              THEN UpdateBalances(
                       [accounts EXCEPT ![account_num].balance = ApplyEntry(@, entry)],
                       entries, i + 1)
              ELSE UpdateBalances(accounts, entries, i + 1)

Message(kind, debits, credits) == [kind |-> kind, debits |-> debits, credits |-> credits]

Returned(value) == [kind |-> "bool", value |-> value]

\* the balance test left out
UnbalancedNever(total_debits, total_credits) == FALSE

\* the balance test with a tolerance of 100
UnbalancedTolerant(total_debits, total_credits) ==
    \/ total_debits.hi # total_credits.hi
    \/ total_debits.lo - total_credits.lo > 100
    \/ total_credits.lo - total_debits.lo > 100

\* lines 109-111: the balance test of the posting
Unbalanced(total_debits, total_credits) == total_debits # total_credits

\* line 125 without the + 1
NextIdZeroBased(transactions) == Len(transactions)

\* line 125
NextId(transactions) == Len(transactions) + 1

\* line 132 with the log replaced by the new transaction
ReplaceTransactions(transactions, transaction) == <<transaction>>

\* line 132: company["transactions"].append(transaction)
AppendTransaction(transactions, transaction) == Append(transactions, transaction)

\* MultiCompanyAccounting.record_transaction, lines 102-138
record_transaction(company_id, date, description, entries, vat_rate) ==
    LET total_debits == SumEntries(entries, "debit")
        total_credits == SumEntries(entries, "credit")
        company == companies[company_id]
        loop == UpdateBalances(company.accounts, entries, 1)
        transaction == [id |-> NextId(company.transactions),
                        date |-> date,
                        description |-> description,
                        entries |-> entries,
                        vat_rate |-> vat_rate]
    IN IF Unbalanced(total_debits, total_credits)
       THEN /\ msg' = Message("imbalance", total_debits, total_credits)
            /\ ret' = Returned(FALSE)
            /\ UNCHANGED companies
       ELSE IF loop.raised
       THEN /\ companies' = [companies EXCEPT ![company_id].accounts = loop.accounts]
            /\ msg' = Message("exception", Zero, Zero)
            /\ ret' = Returned(FALSE)
       ELSE /\ companies' = [companies EXCEPT
                                ![company_id].accounts = loop.accounts,
                                ![company_id].transactions =
                                    AppendTransaction(@, transaction)]
            /\ msg' = Message("success", Zero, Zero)
            /\ ret' = Returned(TRUE)

----------------------------------------------------------------------------
(* Reports *)

\* MultiCompanyAccounting.get_account_balance, lines 142-146: the sum over the
\* accounts from position i of the chart on
RECURSIVE SumBalances(_, _, _)
SumBalances(accounts, account_type, i) ==
    IF i > Len(ChartOrder) THEN Zero
    ELSE LET code == ChartOrder[i]
             rest == SumBalances(accounts, account_type, i + 1)
         IN IF accounts[code].type = account_type
            THEN Add(accounts[code].balance, rest) ELSE rest

get_account_balance(accounts, account_type) ==
    SumBalances(accounts, account_type, 1)

\* MultiCompanyAccounting.calculate_net_income, lines 166-170
calculate_net_income(accounts) ==
    LET revenue == get_account_balance(accounts, "income")
        expenses == get_account_balance(accounts, "expense")
    IN float(Sub(revenue, expenses))

\* line 156: the accounts after the balance sheet has stored the net income
StoreEarnings(accounts, net_income) ==
    [accounts EXCEPT !["3950"].balance = DecimalOfStr(net_income)]

\* lines 159-164: the dictionary generate_balance_sheet returns
BalanceSheet(accounts) ==
    LET assets == get_account_balance(accounts, "asset")
        liabilities == get_account_balance(accounts, "liability")
        equity == Add(get_account_balance(accounts, "equity"),
                      DecimalOfStr(calculate_net_income(accounts)))
    IN [kind |-> "sheet",
        assets |-> float(assets),
        liabilities |-> float(liabilities),
        equity |-> float(equity),
        check |-> (assets = Add(liabilities, equity))]

\* MultiCompanyAccounting.generate_balance_sheet, lines 148-164
generate_balance_sheet(company_id) ==
    LET accounts == companies[company_id].accounts IN
    /\ companies' = [companies EXCEPT ![company_id].accounts =
                        StoreEarnings(accounts, calculate_net_income(accounts))]
    /\ ret' = BalanceSheet(accounts)
    /\ msg' = NoMessage

----------------------------------------------------------------------------
(* Inputs *)

Date == "2024-01-15"

VatRate == "0.2"

NewNames == {"Acme Ltd"}

\* the examples of the specification
CashSale ==
    <<DebitEntry("1000", Dec(0, 1200)), CreditEntry("4000", Dec(0, 1000)),
      CreditEntry("2100", Dec(0, 200))>>

Mismatched == <<DebitEntry("1000", Dec(0, 500)), CreditEntry("4000", Dec(0, 400))>>

UnknownAccount == <<DebitEntry("1000", Dec(0, 1000)), CreditEntry("9999", Dec(0, 1000))>>

\* a sale of 10^22 pounds, and a posting to Current Year Earnings
LargeSale == <<DebitEntry("1000", Dec(1, 0)), CreditEntry("4000", Dec(1, 0))>>

EarningsPosting == <<DebitEntry("5000", Dec(0, 1000)), CreditEntry("3950", Dec(0, 1000))>>

\* entries that are no proper debit or credit: both sides, no side, zero and
\* negative amounts
BothSides == <<BothEntry("1000", Dec(0, 1000), Dec(0, 1000))>>

NoSide == <<AccountOnly("1000")>>

ZeroAmounts == <<DebitEntry("1000", Dec(0, 0)), CreditEntry("4000", Dec(0, 0))>>

NegativeAmounts == <<DebitEntry("1000", Dec(0, -1000)), CreditEntry("4000", Dec(0, -1000))>>

\* a list whose second entry has no "account" key
NoAccountKey == <<DebitEntry("1600", Dec(0, 1500)), CreditNoAccount(Dec(0, 1500))>>

OneSided == <<DebitEntry("1000", Dec(0, 1000))>>

\* rows of the record form: the account chosen and the two number inputs
Row(code, debit, credit) == [account |-> code, debit |-> debit, credit |-> credit]

FormRowLists ==
    {<<Row("1000", Zero, Zero), Row("1000", Zero, Zero)>>,
     <<Row("1000", Dec(0, 1000), Dec(0, 1000)), Row("4000", Zero, Zero)>>,
     <<Row("1000", Dec(0, 1200), Zero), Row("4000", Zero, Dec(0, 1000)),
       Row("2100", Zero, Dec(0, 200))>>,
     <<Row("1000", Dec(0, 500), Zero), Row("4000", Zero, Dec(0, 400))>>}

Descriptions == {"", "Cash sale"}

EntryLists ==
    {<<>>, CashSale, Mismatched, UnknownAccount, LargeSale, EarningsPosting,
     BothSides, NoSide, ZeroAmounts, NegativeAmounts, NoAccountKey, OneSided}

----------------------------------------------------------------------------
(* Bounds on the reachable states *)

Abs(n) == IF n < 0 THEN 0 - n ELSE n

TotalTx(cs) == Len(cs["company_1"].transactions) + Len(cs["company_2"].transactions)

\* the accounts the entries name stay within the balance bounds
InBounds(accounts, entries) ==
    \A i \in 1..Len(entries) :
        ("account" \in DOMAIN entries[i] /\ entries[i]["account"] \in DOMAIN accounts) =>
            /\ Abs(accounts[entries[i]["account"]].balance.lo) <= MaxBalance
            /\ Abs(accounts[entries[i]["account"]].balance.hi) <= MaxHi

----------------------------------------------------------------------------
(* Operations *)

\* a call of record_transaction with any of the entry lists
PostTransaction ==
    \E company_id \in CompanyIds : \E entries \in EntryLists :
        /\ record_transaction(company_id, Date, "Cash sale", entries, VatRate)
        /\ TotalTx(companies') <= MaxTx
        /\ InBounds(companies'[company_id].accounts, entries)

\* x > 0 for a number input x
Positive(x) == x.hi > 0 \/ (x.hi = 0 /\ x.lo > 0)

\* record_transaction(accounting), lines 347-355: the entry of one form row,
\* the row being skipped when both of its amounts are zero
RowEntries(row) ==
    IF Positive(row.debit) \/ Positive(row.credit)
    THEN <<[k \in {"account"}
                 \cup (IF Positive(row.debit) THEN {"debit"} ELSE {})
                 \cup (IF Positive(row.credit) THEN {"credit"} ELSE {})
             |-> row[k]]>>
    ELSE <<>>

\* lines 321-355: the entries of the form, row by row
RECURSIVE FormEntries(_)
FormEntries(rows) ==
    IF rows = <<>> THEN <<>>
    ELSE RowEntries(Head(rows)) \o FormEntries(Tail(rows))

\* line 377: what the record button needs besides the click
ButtonGuard(entries, description) == entries # <<>> /\ description # ""

\* record_transaction(accounting), lines 295-380: the record button of the form.
\* The rows shown are entry_count many, 2 or more (lines 318-366); the counter
\* itself, which only the add and remove buttons and a recorded transaction
\* change, is not part of the state here.
RecordTransactionPage ==
    \E company_choice \in CompanyIds : \E description \in Descriptions :
    \E rows \in FormRowLists :
        LET entries == FormEntries(rows) IN
        IF ButtonGuard(entries, description)
        THEN /\ record_transaction(company_choice, Date, description, entries, VatRate)
             /\ TotalTx(companies') <= MaxTx
             /\ InBounds(companies'[company_choice].accounts, entries)
        ELSE /\ ret' = NoReturn
             /\ msg' = NoMessage
             /\ UNCHANGED companies

\* a call of generate_balance_sheet (dashboard and report pages)
GenerateBalanceSheet ==
    \E company_id \in CompanyIds : generate_balance_sheet(company_id)

\* a call of calculate_net_income (dashboard)
CalculateNetIncome ==
    \E company_id \in CompanyIds :
        /\ ret' = [kind |-> "float",
                   value |-> calculate_net_income(companies[company_id].accounts)]
        /\ msg' = NoMessage
        /\ UNCHANGED companies

\* a reset button that clears the log and keeps the chart as it is
reset_transactions_only(company_id) ==
    [companies EXCEPT ![company_id].transactions = <<>>]

\* a reset button that clears the books of every company
reset_every_company(company_id) ==
    [id \in CompanyIds |->
        [companies[id] EXCEPT !.transactions = <<>>,
                              !.accounts = create_chart_of_accounts]]

\* show_company_settings, lines 579-590: a reset button
reset_company(company_id) ==
    [companies EXCEPT ![company_id].transactions = <<>>,
                      ![company_id].accounts = create_chart_of_accounts]

ResetCompany ==
    \E company_id \in CompanyIds :
        /\ companies' = reset_company(company_id)
        /\ msg' = Message("reset", Zero, Zero)
        /\ ret' = NoReturn

\* show_company_settings, lines 558-559 and 567-568: a company name input
RenameCompany ==
    \E company_id \in CompanyIds : \E new_name \in NewNames :
        /\ companies' = [companies EXCEPT ![company_id].name = new_name]
        /\ UNCHANGED <<ret, msg>>

Next ==
    \/ PostTransaction
    \/ RecordTransactionPage
    \/ GenerateBalanceSheet
    \/ CalculateNetIncome
    \/ ResetCompany
    \/ RenameCompany

Spec == Init /\ [][Next]_vars

\* the ledger reached by successful postings alone
PostSucceeds == PostTransaction /\ ret' = Returned(TRUE)

SpecPosting == Init /\ [][PostSucceeds]_vars

\* the entry lists whose entries all name an account of the chart
KnownAccountLists ==
    {entries \in EntryLists :
        \A i \in 1..Len(entries) :
            "account" \in DOMAIN entries[i] /\ entries[i]["account"] \in Codes}

\* a call of record_transaction whose entries all name an account of the chart
PostKnownAccounts ==
    \E company_id \in CompanyIds : \E entries \in KnownAccountLists :
        /\ record_transaction(company_id, Date, "Cash sale", entries, VatRate)
        /\ TotalTx(companies') <= MaxTx
        /\ InBounds(companies'[company_id].accounts, entries)

NextKnownAccounts ==
    \/ PostKnownAccounts
    \/ ResetCompany

\* the postings to accounts of the chart and the resets, with no balance sheet
SpecKnownAccounts == Init /\ [][NextKnownAccounts]_vars

----------------------------------------------------------------------------
(* Vocabulary of the properties *)

Company1 == companies["company_1"]

\* the entry lists record_transaction is called with, directly or by the form
CallLists == EntryLists \cup {FormEntries(rows) : rows \in FormRowLists}

DebitTotal(entries) == SumEntries(entries, "debit")

CreditTotal(entries) == SumEntries(entries, "credit")

\* a step in which the company's log grows by one transaction
Posted(id) ==
    Len(companies'[id].transactions) = Len(companies[id].transactions) + 1

PostedEntries(id) ==
    companies'[id].transactions[Len(companies'[id].transactions)].entries

\* a step that is a call record_transaction(id, ..., entries, ...)
Called(id, entries) == record_transaction(id, Date, "Cash sale", entries, VatRate)

Rejected == ret' = Returned(FALSE) /\ companies' = companies

\* the amounts the entries put on one side of one account
RECURSIVE SideOn(_, _, _)
SideOn(entries, code, side) ==
    IF entries = <<>> THEN Zero
    ELSE LET e == Head(entries)
             rest == SideOn(Tail(entries), code, side)
         IN IF "account" \in DOMAIN e /\ e["account"] = code /\ side \in DOMAIN e
            THEN Add(e[side], rest) ELSE rest

ClassTotal(accounts, account_type) == get_account_balance(accounts, account_type)

----------------------------------------------------------------------------
(* C1 *)

----------------------------------------------------------------------------
(* C2 *)

----------------------------------------------------------------------------
(* C3 *)

UnbalancedLists == {entries \in CallLists : DebitTotal(entries) # CreditTotal(entries)}

\* C3: a call of record_transaction whose debits and credits differ returns
\* False and changes no balance, no log and no name of any company.
C3_UnbalancedRejected ==
    [][\A id \in CompanyIds : \A entries \in UnbalancedLists :
          Called(id, entries) => Rejected]_vars

\* the mismatched posting of 500 against 400 was refused on a ledger that
\* holds an earlier transaction
C3_Witness ==
    /\ msg = Message("imbalance", Dec(0, 500), Dec(0, 400))
    /\ ret = Returned(FALSE)
    /\ Len(Company1.transactions) = 1
    /\ Company1.accounts["1000"].balance = Dec(0, 1200)

----------------------------------------------------------------------------
(* C4 *)

NamesUnknownAccount(entries) ==
    \E i \in 1..Len(entries) :
        "account" \in DOMAIN entries[i] /\ entries[i]["account"] \notin Codes

----------------------------------------------------------------------------
(* C5 *)

\* exactly one of debit and credit, and that amount above zero
ProperEntry(entry) ==
    /\ ("debit" \in DOMAIN entry) # ("credit" \in DOMAIN entry)
    /\ "debit" \in DOMAIN entry => Positive(entry["debit"])
    /\ "credit" \in DOMAIN entry => Positive(entry["credit"])

----------------------------------------------------------------------------
(* C6 *)

----------------------------------------------------------------------------
(* C7 *)

\* C7: in every log, the debit amounts of a transaction's entries sum to
\* exactly what its credit amounts sum to.
C7_LoggedBalanced ==
    \A id \in CompanyIds : \A i \in 1..Len(companies[id].transactions) :
        LET entries == companies[id].transactions[i].entries IN
        DebitTotal(entries) = CreditTotal(entries)

\* the log of company_1 holds the cash sale, 1200 on each side
C7_Witness ==
    /\ Len(Company1.transactions) = 2
    /\ Company1.transactions[2].entries = CashSale
    /\ DebitTotal(CashSale) = Dec(0, 1200)

----------------------------------------------------------------------------
(* C8 *)

\* C8: the transaction at position i of a log has id i, whatever postings,
\* failed postings and resets came before.
C8_SequentialIds ==
    \A id \in CompanyIds : \A i \in 1..Len(companies[id].transactions) :
        companies[id].transactions[i].id = i

\* two transactions in one log, a failed posting after them
C8_Witness ==
    /\ Len(Company1.transactions) = 2
    /\ Company1.transactions[1].id = 1
    /\ Company1.transactions[2].id = 2
    /\ ret = Returned(FALSE)

----------------------------------------------------------------------------
(* C9 *)

\* C9: a successful posting moves every account of the company, whatever its
\* class, from its old balance to the old balance plus the debits minus the
\* credits of the entries that name it; an account no entry names keeps its
\* balance.
C9_BalanceUpdate ==
    [][\A id \in CompanyIds :
          Posted(id) =>
              \A code \in Codes :
                  companies'[id].accounts[code].balance =
                      Add(companies[id].accounts[code].balance,
                          Sub(SideOn(PostedEntries(id), code, "debit"),
                              SideOn(PostedEntries(id), code, "credit")))]_vars

\* an entry with both sides was posted on top of the cash sale
C9_Witness ==
    /\ Len(Company1.transactions) = 2
    /\ Company1.transactions[1].entries = CashSale
    /\ Company1.transactions[2].entries = BothSides
    /\ Company1.accounts["1000"].balance = Dec(0, 1200)
    /\ Company1.accounts["4000"].balance = Dec(0, -1000)
    /\ ret = Returned(TRUE)

----------------------------------------------------------------------------
(* C10 *)

----------------------------------------------------------------------------
(* C11 *)

\* a step that is a press of the reset button of the company
ResetStep(id) ==
    /\ msg' = Message("reset", Zero, Zero)
    /\ companies' = reset_company(id)

\* C11: a reset of a company, from any reachable state, leaves every balance
\* of the company at zero and its log empty, leaves its chart with the codes,
\* names and classes of the seed, and leaves its name as it was.
C11_ResetRestoresSeed ==
    [][\A id \in CompanyIds :
          ResetStep(id) =>
              /\ companies'[id].transactions = <<>>
              /\ DOMAIN companies'[id].accounts = Codes
              /\ \A code \in Codes :
                     /\ companies'[id].accounts[code].balance = Zero
                     /\ companies'[id].accounts[code].name = AccountName(code)
                     /\ companies'[id].accounts[code].type = AccountType(code)
              /\ companies'[id].name = companies[id].name]_vars

\* the renamed company has just been reset while the other one keeps its books
C11_Witness ==
    /\ msg = Message("reset", Zero, Zero)
    /\ Company1.name = "Acme Ltd"
    /\ Company1.transactions = <<>>
    /\ \A code \in Codes : Company1.accounts[code].balance = Zero
    /\ Len(companies["company_2"].transactions) = 2
    /\ companies["company_2"].accounts["1000"].balance # Zero

----------------------------------------------------------------------------
(* C12 *)

\* the balances, the log and the name of the company are left as they were
BooksUnchanged(id) ==
    /\ companies'[id].accounts = companies[id].accounts
    /\ companies'[id].transactions = companies[id].transactions
    /\ companies'[id].name = companies[id].name

\* a step that is a record_transaction, a generate_balance_sheet or a reset
\* performed on the company
ActsOn(id) ==
    \/ \E entries \in CallLists : Called(id, entries)
    \/ generate_balance_sheet(id)
    \/ ResetStep(id)

\* C12: a record_transaction (successful or failed), a generate_balance_sheet
\* or a reset performed on one company leaves the balances, the log and the
\* name of the other company unchanged, from every reachable state.
C12_CompanyIsolation ==
    [][\A id \in CompanyIds : \A other \in CompanyIds \ {id} :
          BooksUnchanged(other) \/ ~ActsOn(id)]_vars

\* the first company has posted twice and drawn a balance sheet while the
\* second one is still as seeded
C12_Witness ==
    /\ Len(Company1.transactions) = 2
    /\ Company1.accounts["3950"].balance # Zero
    /\ ret.kind = "sheet"
    /\ companies["company_2"] = setup_session_state["company_2"]

----------------------------------------------------------------------------
(* C13 *)

\* C13: every step other than a reset of the company leaves its log as it was
\* or extends it by exactly one transaction behind the unchanged old log, and
\* the log is extended only by a successful posting to that company.
C13_LogAppendOnly ==
    [][\A id \in CompanyIds :
          LET old == companies[id].transactions
              new == companies'[id].transactions
          IN \/ new = old
             \/ /\ Len(new) = Len(old) + 1
                /\ SubSeq(new, 1, Len(old)) = old
                /\ ret' = Returned(TRUE)
                /\ Called(id, new[Len(new)].entries)
             \/ ResetStep(id)]_vars

\* a posting has failed halfway after two postings, and the two are still
\* in the log in their order
C13_Witness ==
    /\ msg = Message("exception", Zero, Zero)
    /\ ret = Returned(FALSE)
    /\ Len(Company1.transactions) = 2
    /\ Company1.transactions[1].id = 1
    /\ Company1.transactions[2].id = 2
    /\ Company1.accounts["1600"].balance # Zero

----------------------------------------------------------------------------
(* C14 *)

----------------------------------------------------------------------------
(* C15 *)

\* the sum of the balances of the accounts from position i of the chart on
RECURSIVE TotalBalance(_, _)
TotalBalance(accounts, i) ==
    IF i > Len(ChartOrder) THEN Zero
    ELSE Add(accounts[ChartOrder[i]].balance, TotalBalance(accounts, i + 1))

\* C15: in every state reached from the seeded charts by record_transaction
\* calls whose entries all name accounts of the chart and by resets, with no
\* generate_balance_sheet call, the balances of all the accounts of a company
\* sum to exactly zero.
C15_ZeroSum ==
    \A id \in CompanyIds : TotalBalance(companies[id].accounts, 1) = Zero

\* the cash sale and the earnings posting have put a balance on every class
C15_Witness ==
    /\ Len(Company1.transactions) = 2
    /\ \A account_type \in {"asset", "liability", "equity", "income", "expense"} :
           ClassTotal(Company1.accounts, account_type) # Zero
    /\ TotalBalance(Company1.accounts, 1) = Zero

====
